---- MODULE Spec2Model ----
(***************************************************************************)
(* Precedence climbing (pest, src/prec_climber.rs): the operator chain     *)
(* builder (Operator::new, `|`), the precedence table (PrecClimber::new)   *)
(* and the climbing engine (PrecClimber::climb / climb_rec).               *)
(*                                                                         *)
(* An Operator chain (rule, assoc, next) is a non-empty sequence of        *)
(* [rule, assoc] records: element k+1 is the `next` of element k.          *)
(* A token (Pair) is identified by its 1-based position in `pairs`;        *)
(* pairs[i] is its rule.  A value T is the flat, fully parenthesised       *)
(* sequence of the token positions it was reduced from.                    *)
(***************************************************************************)
EXTENDS Integers, Sequences, FiniteSets, TLC

VARIABLES
    vec,          \* the Vec<Operator> under construction (sequence of chains)
    combined,     \* per element of vec: every operator joined into it by `|`
    ops,          \* PrecClimber.ops : HashMap<R, (u32, Assoc)>
    pairs,        \* the token sequence given to climb (rules)
    pos,          \* number of tokens the iterator has yielded
    stack,        \* the climb_rec activation records, innermost last
    pc,           \* position of the program
    result,       \* the value climb returned
    primaryCalls, \* tokens passed to the primary callback, in call order
    infixCalls    \* operator tokens passed to the infix callback, in call order

vars == <<vec, combined, ops, pairs, pos, stack, pc, result, primaryCalls, infixCalls>>

\* ---- bounds -------------------------------------------------------------
MaxOps == 3
MaxGroups == 2
MaxChain == 2
MaxLen == 6

\* ---- rules and associativity -------------------------------------------
Assoc == {"Left", "Right"}
BuildRules == {"plus", "minus", "times"}
ClimbRules == {"plus", "times"}
TokenRules == ClimbRules \cup {"num"}

\* ---- Operator chain builder ---------------------------------------------
OperatorNew(rule, assoc) == <<[rule |-> rule, assoc |-> assoc]>>

bitor(self, rhs) == <<Head(self)>> \o rhs

\* ---- Precedence table construction ---------------------------------------
EmptyMap == [r \in {} |-> [prec |-> 0, assoc |-> "Left"]]

insert_keepfirst(map, rule, prec, assoc) ==
    IF rule \in DOMAIN map THEN map
    ELSE [r \in DOMAIN map \cup {rule} |->
            IF r = rule THEN [prec |-> prec, assoc |-> assoc] ELSE map[r]]

insert(map, rule, prec, assoc) ==
    [r \in DOMAIN map \cup {rule} |->
        IF r = rule THEN [prec |-> prec, assoc |-> assoc] ELSE map[r]]

RECURSIVE WalkChain(_, _, _)
WalkChain(map, chain, prec) ==
    IF chain = <<>> THEN map
    ELSE WalkChain(insert(map, Head(chain).rule, prec, Head(chain).assoc),
                   Tail(chain), prec)

RECURSIVE FoldGroups(_, _, _)
FoldGroups(map, groups, prec) ==
    IF groups = <<>> THEN map
    ELSE FoldGroups(WalkChain(map, Head(groups), prec), Tail(groups), prec + 1)

FirstPrec == 1

PrecClimberNew(groups) == FoldGroups(EmptyMap, groups, FirstPrec)

\* ---- callbacks ------------------------------------------------------------
primary(tok) == <<tok>>

infix(lhs, op, rhs) == <<0>> \o lhs \o <<op>> \o rhs \o <<-1>>

\* ---- climbing engine ------------------------------------------------------
ClimbMinPrecTwo == 1 + 1

ClimbMinPrec == 0

Frame(lhs, min_prec, start) ==
    [lhs |-> lhs, min_prec |-> min_prec, loc |-> "outer",
     op |-> 0, prec |-> 0, rhs |-> <<>>, start |-> start]

Top == stack[Len(stack)]

SetTop(f) == [stack EXCEPT ![Len(stack)] = f]

PeekIsSome == pos < Len(pairs)

PeekRule == pairs[pos + 1]

PeekIsOp == PeekIsSome /\ PeekRule \in DOMAIN ops

OuterEnters(prec, min_prec) == prec >= min_prec

ShouldRecurse_NoPrec(new_prec, assoc, prec) ==
    assoc = "Right" /\ new_prec = prec

ShouldRecurse_GE(new_prec, assoc, prec) == new_prec >= prec

ShouldRecurse_LeftTie(new_prec, assoc, prec) ==
    new_prec > prec \/ (assoc = "Left" /\ new_prec = prec)

ShouldRecurse(new_prec, assoc, prec) ==
    new_prec > prec \/ (assoc = "Right" /\ new_prec = prec)

RecMinPrec_Next(new_prec) == new_prec + 1

RecMinPrec(new_prec) == new_prec

InfixToken_Lookahead(op) == op + 1

InfixToken(op) == op

\* ---- inputs ----------------------------------------------------------------
Operators(rules) == [rule : rules, assoc : Assoc]

Chains == UNION {[1..n -> Operators(ClimbRules)] : n \in 1..MaxChain}

\* the tables PrecClimber::new folds from n groups: the table of the first
\* n - 1 groups, then the chain of group n walked at precedence n
RECURSIVE TablesOfLen(_)
TablesOfLen(n) ==
    IF n = 0 THEN {EmptyMap}
    ELSE {WalkChain(map, chain, FirstPrec + n - 1) :
            map \in TablesOfLen(n - 1), chain \in Chains}

Tables == UNION {TablesOfLen(n) : n \in 0..MaxGroups}

TokenSeqs == UNION {[1..n -> TokenRules] : n \in 0..MaxLen}

RECURSIVE TotalOps(_)
TotalOps(c) == IF c = <<>> THEN 0 ELSE Len(Head(c)) + TotalOps(Tail(c))

\* ---- building the table ---------------------------------------------------
InitBuild ==
    /\ vec = <<>>
    /\ combined = <<>>
    /\ ops = EmptyMap
    /\ pairs = <<>>
    /\ pos = 0
    /\ stack = <<>>
    /\ pc = "build"
    /\ result = <<>>
    /\ primaryCalls = <<>>
    /\ infixCalls = <<>>

\* Operator::new(rule, assoc), written as a further element of the vec![..]
NewOperator ==
    /\ pc = "build"
    /\ TotalOps(combined) < MaxOps
    /\ \E rule \in BuildRules, assoc \in Assoc :
          /\ vec' = Append(vec, OperatorNew(rule, assoc))
          /\ combined' = Append(combined, OperatorNew(rule, assoc))
    /\ UNCHANGED <<ops, pairs, pos, stack, pc, result, primaryCalls, infixCalls>>

\* lhs | rhs on the two most recent operands
GroupWith ==
    /\ pc = "build"
    /\ Len(vec) >= 2
    /\ LET n == Len(vec) IN
          /\ vec' = Append(SubSeq(vec, 1, n - 2), bitor(vec[n - 1], vec[n]))
          /\ combined' = Append(SubSeq(combined, 1, n - 2),
                                combined[n - 1] \o combined[n])
    /\ UNCHANGED <<ops, pairs, pos, stack, pc, result, primaryCalls, infixCalls>>

\* PrecClimber::new(vec)
NewPrecClimber ==
    /\ pc = "build"
    /\ ops' = PrecClimberNew(vec)
    /\ pc' = "built"
    /\ UNCHANGED <<vec, combined, pairs, pos, stack, result, primaryCalls, infixCalls>>

NextBuild == NewOperator \/ GroupWith \/ NewPrecClimber

SpecBuild == InitBuild /\ [][NextBuild]_vars

\* ---- climbing ---------------------------------------------------------------
Init ==
    /\ vec = <<>>
    /\ combined = <<>>
    /\ ops \in Tables
    /\ pairs \in TokenSeqs
    /\ pos = 0
    /\ stack = <<>>
    /\ pc = "start"
    /\ result = <<>>
    /\ primaryCalls = <<>>
    /\ infixCalls = <<>>

\* climb, line 166: pairs.next() is None
ClimbEmpty ==
    /\ pc = "start"
    /\ pairs = <<>>
    /\ pc' = "panic_empty"
    /\ UNCHANGED <<vec, combined, ops, pairs, pos, stack, result, primaryCalls, infixCalls>>

\* climb, lines 166-167: first primary, then climb_rec(lhs, 0, ..)
ClimbStart ==
    /\ pc = "start"
    /\ pairs # <<>>
    /\ pos' = 1
    /\ primaryCalls' = Append(primaryCalls, 1)
    /\ stack' = <<Frame(primary(1), ClimbMinPrec, 1)>>
    /\ pc' = "running"
    /\ UNCHANGED <<vec, combined, ops, pairs, result, infixCalls>>

OuterContinues ==
    /\ PeekIsOp
    /\ OuterEnters(ops[PeekRule].prec, Top.min_prec)

\* climb_rec, lines 183-189: take the operator and its right-hand primary
OuterTake ==
    /\ pc = "running"
    /\ Top.loc = "outer"
    /\ OuterContinues
    /\ pos + 2 <= Len(pairs)
    /\ pos' = pos + 2
    /\ primaryCalls' = Append(primaryCalls, pos + 2)
    /\ stack' = SetTop([Top EXCEPT !.loc = "inner", !.op = pos + 1,
                                   !.prec = ops[PeekRule].prec,
                                   !.rhs = primary(pos + 2)])
    /\ UNCHANGED <<vec, combined, ops, pairs, pc, result, infixCalls>>

OuterMissingOperand_Returns ==
    /\ pc = "running"
    /\ Top.loc = "outer"
    /\ OuterContinues
    /\ pos + 2 > Len(pairs)
    /\ pos' = pos + 1
    /\ pc' = "returned"
    /\ result' = stack[1].lhs
    /\ stack' = <<>>
    /\ UNCHANGED <<vec, combined, ops, pairs, primaryCalls, infixCalls>>

\* climb_rec, lines 187-189: the operator is the last token, expect() panics
OuterMissingOperand ==
    /\ pc = "running"
    /\ Top.loc = "outer"
    /\ OuterContinues
    /\ pos + 2 > Len(pairs)
    /\ pos' = pos + 1
    /\ pc' = "panic_operand"
    /\ UNCHANGED <<vec, combined, ops, pairs, stack, result, primaryCalls, infixCalls>>

\* climb_rec, lines 205-213, called from line 195: rhs = returned lhs
RecReturn ==
    /\ pc = "running"
    /\ Top.loc = "outer"
    /\ ~OuterContinues
    /\ Len(stack) > 1
    /\ LET n == Len(stack) IN
          stack' = [SubSeq(stack, 1, n - 1) EXCEPT ![n - 1].rhs = stack[n].lhs]
    /\ UNCHANGED <<vec, combined, ops, pairs, pos, pc, result, primaryCalls, infixCalls>>

\* climb_rec, lines 205-213, called from line 167: the value climb returns
ClimbReturn ==
    /\ pc = "running"
    /\ Top.loc = "outer"
    /\ ~OuterContinues
    /\ Len(stack) = 1
    /\ result' = Top.lhs
    /\ stack' = <<>>
    /\ pc' = "returned"
    /\ UNCHANGED <<vec, combined, ops, pairs, pos, primaryCalls, infixCalls>>

InnerContinues ==
    /\ PeekIsOp
    /\ ShouldRecurse(ops[PeekRule].prec, ops[PeekRule].assoc, Top.prec)

\* climb_rec, lines 191-195: climb into the right-hand side
InnerRecurse ==
    /\ pc = "running"
    /\ Top.loc = "inner"
    /\ InnerContinues
    /\ stack' = Append(stack, Frame(Top.rhs, RecMinPrec(ops[PeekRule].prec), pos))
    /\ UNCHANGED <<vec, combined, ops, pairs, pos, pc, result, primaryCalls, infixCalls>>

\* climb_rec, lines 196-204: leave the look-ahead loop and reduce
InnerReduce ==
    /\ pc = "running"
    /\ Top.loc = "inner"
    /\ ~InnerContinues
    /\ infixCalls' = Append(infixCalls, InfixToken(Top.op))
    /\ stack' = SetTop([Top EXCEPT !.loc = "outer",
                                   !.lhs = infix(Top.lhs, InfixToken(Top.op), Top.rhs)])
    /\ UNCHANGED <<vec, combined, ops, pairs, pos, pc, result, primaryCalls>>

Next ==
    \/ ClimbEmpty
    \/ ClimbStart
    \/ OuterTake
    \/ OuterMissingOperand
    \/ RecReturn
    \/ ClimbReturn
    \/ InnerRecurse
    \/ InnerReduce

Spec == Init /\ [][Next]_vars

FairSpec == Spec /\ WF_vars(Next)

Terminated == pc \in {"returned", "panic_empty", "panic_operand"}

TypeOK ==
    /\ pos \in 0..Len(pairs)
    /\ pc \in {"build", "built", "start", "running", "returned", "panic_empty", "panic_operand"}
    /\ Len(stack) <= Len(pairs)

\* ---- vocabulary of the properties -------------------------------------------
InTable(i) == pairs[i] \in DOMAIN ops

PrecAt(i) == ops[pairs[i]].prec

AssocAt(i) == ops[pairs[i]].assoc

EvenPositions == {j \in 1..Len(pairs) : j % 2 = 0}

AllOperatorsInTable == \A j \in EvenPositions : InTable(j)

\* primary (operator primary)*, operators in the table, primaries outside it
WellFormed ==
    /\ Len(pairs) % 2 = 1
    /\ \A j \in 1..Len(pairs) : InTable(j) <=> j % 2 = 0

\* ((p1 op p2) op p3) ... over the first n primaries
RECURSIVE LeftNested(_)
LeftNested(n) ==
    IF n = 1 THEN primary(1)
    ELSE infix(LeftNested(n - 1), 2 * n - 2, primary(2 * n - 1))

\* pk op (pk+1 op (... pn))
RECURSIVE RightNested(_, _)
RightNested(k, n) ==
    IF k = n THEN primary(2 * n - 1)
    ELSE infix(primary(2 * k - 1), 2 * k, RightNested(k + 1, n))

\* the tokens of a value, in the order they occur in it
Tokens(value) == SelectSeq(value, LAMBDA x : x > 0)

Range(f) == {f[i] : i \in DOMAIN f}

\* ---- C2 ---------------------------------------------------------------------
\* C2: for [a, op1, b, op2, c] with both operators in the table, climb returns
\* a op1 (b op2 c) when precedence(op2) > precedence(op1), whatever the
\* associativities, and (a op1 b) op2 c when precedence(op2) < precedence(op1).
C2_PrecedenceOrdering ==
    (pc = "returned" /\ Len(pairs) = 5 /\ InTable(2) /\ InTable(4)) =>
        /\ PrecAt(4) > PrecAt(2) => result = RightNested(1, 3)
        /\ PrecAt(4) < PrecAt(2) => result = LeftNested(3)

C2_Witness ==
    /\ WellFormed
    /\ pc = "returned" /\ Len(pairs) = 5 /\ InTable(2) /\ InTable(4)
    /\ PrecAt(4) > PrecAt(2)
    /\ AssocAt(2) = "Left" /\ AssocAt(4) = "Left"
    /\ result = infix(primary(1), 2, infix(primary(3), 4, primary(5)))

\* ---- C3 ---------------------------------------------------------------------
SameLevel ==
    /\ Len(pairs) >= 3
    /\ Len(pairs) % 2 = 1
    /\ AllOperatorsInTable
    /\ \A j \in EvenPositions : PrecAt(j) = PrecAt(2) /\ AssocAt(j) = AssocAt(2)

\* C3: n >= 2 primaries joined by operators of one precedence and one
\* associativity reduce fully left-nested when Left, fully right-nested when
\* Right.
C3_Associativity ==
    (pc = "returned" /\ SameLevel) =>
        /\ AssocAt(2) = "Left" => result = LeftNested((Len(pairs) + 1) \div 2)
        /\ AssocAt(2) = "Right" => result = RightNested(1, (Len(pairs) + 1) \div 2)

C3_Witness ==
    /\ WellFormed
    /\ pc = "returned" /\ SameLevel
    /\ Len(pairs) >= 5
    /\ AssocAt(2) = "Right"
    /\ result = RightNested(1, (Len(pairs) + 1) \div 2)
    /\ result # LeftNested((Len(pairs) + 1) \div 2)

\* ---- C4 ---------------------------------------------------------------------
TrailingOperator ==
    /\ Len(pairs) > 0
    /\ Len(pairs) % 2 = 0
    /\ AllOperatorsInTable

ConsumedOperators == {j \in 1..pos : j % 2 = 0}

InfixOncePerConsumedOperator ==
    /\ Range(infixCalls) = ConsumedOperators
    /\ Len(infixCalls) = Cardinality(ConsumedOperators)

PrimaryInOrder ==
    primaryCalls = [k \in 1..((pos + 1) \div 2) |-> 2 * k - 1]

\* C5 as stated: in every run, also one that aborts, infix is invoked exactly
\* once for each operator token consumed.
C5_AsStated ==
    Terminated => (PrimaryInOrder /\ InfixOncePerConsumedOperator)

\* C5 (amended): primary is invoked exactly once per token consumed at a
\* primary position, in left-to-right order; infix is invoked at most once
\* per consumed operator token, with that token; in a run that returns, exactly
\* once per consumed operator and (primary calls - 1) times; in a run that
\* aborts on a missing operand the last consumed operator gets no infix call.
C5_Callbacks ==
    /\ PrimaryInOrder
    /\ Range(infixCalls) \subseteq ConsumedOperators
    /\ Cardinality(Range(infixCalls)) = Len(infixCalls)
    /\ pc = "returned" =>
          /\ InfixOncePerConsumedOperator
          /\ Len(infixCalls) = Len(primaryCalls) - 1
          /\ Len(pairs) = 1 => (result = primary(1) /\ infixCalls = <<>>)
    /\ pc = "panic_operand" => pos \notin Range(infixCalls)

C5_Witness ==
    /\ WellFormed
    /\ pc = "returned"
    /\ primaryCalls = <<1, 3, 5>>
    /\ infixCalls = <<4, 2>>

\* ---- C6 ---------------------------------------------------------------------
NonOperators == {j \in EvenPositions : ~InTable(j)}

FirstNonOperator == CHOOSE j \in NonOperators : \A k \in NonOperators : j <= k

C7_PanicsOnMalformed ==
    (Terminated /\ ~WellFormed) => pc \in {"panic_empty", "panic_operand"}

\* ---- C9 ---------------------------------------------------------------------
EqualPrecPair ==
    /\ pc = "returned" /\ Len(pairs) = 5 /\ InTable(2) /\ InTable(4)
    /\ PrecAt(2) = PrecAt(4)

\* C9 as stated: at equal precedence the climb into the right-hand side
\* happens exactly when the operator already consumed is right-associative.
C9_AsStated ==
    (EqualPrecPair /\ WellFormed) =>
        /\ AssocAt(2) = "Right" => result = RightNested(1, 3)
        /\ AssocAt(2) = "Left" => result = LeftNested(3)

\* C9 (amended): at equal precedence the climb into the right-hand side
\* happens exactly when the next (peeked) operator is right-associative,
\* independent of the associativity of the operator already consumed.
C9_TieBreak ==
    EqualPrecPair =>
        /\ AssocAt(4) = "Right" => result = RightNested(1, 3)
        /\ AssocAt(4) = "Left" => result = LeftNested(3)

C9_Witness ==
    /\ WellFormed
    /\ EqualPrecPair
    /\ AssocAt(2) = "Left" /\ AssocAt(4) = "Right"
    /\ result = infix(primary(1), 2, infix(primary(3), 4, primary(5)))

\* ---- C10 --------------------------------------------------------------------
C10_Progress ==
    /\ pos' >= pos
    /\ pos' <= pos + 2
    /\ (pc = "running" /\ pc' = "running" /\ Top.loc = "outer"
            /\ Len(stack') = Len(stack)) => pos' = pos + 2
    /\ (pc = "running" /\ Len(stack) > 1 /\ Len(stack') < Len(stack)) =>
            pos >= Top.start + 2

\* C10: climb terminates on every input; the read position never decreases,
\* an outer-loop iteration that does not break consumes an operator and a
\* primary, and a recursive invocation from the look-ahead loop has consumed
\* at least one operator when it returns.
C10_Terminates == <>Terminated /\ [][C10_Progress]_vars

C10_Witness ==
    /\ \A j \in 1..Len(pairs) : j % 2 = 1 => ~InTable(j)
    /\ pc = "running"
    /\ Len(stack) > 1
    /\ Top.loc = "outer"
    /\ ~OuterContinues
    /\ PeekIsOp
    /\ pos >= Top.start + 2

\* ---- C1 ---------------------------------------------------------------------
RulesOf(chain) == {chain[k].rule : k \in DOMAIN chain}

DistinctRules ==
    \A i, j \in DOMAIN combined : \A k \in DOMAIN combined[i], l \in DOMAIN combined[j] :
        combined[i][k].rule = combined[j][l].rule => (i = j /\ k = l)

\* C1: every operator joined into the group at 0-based position i by `|`
\* (rules pairwise distinct) is in the table with precedence i + 1 and its
\* own associativity, whatever the chain length.
C1_NoOperatorDropped ==
    (pc = "built" /\ DistinctRules) =>
        \A i \in DOMAIN combined : \A k \in DOMAIN combined[i] :
            /\ combined[i][k].rule \in DOMAIN ops
            /\ ops[combined[i][k].rule] = [prec |-> i, assoc |-> combined[i][k].assoc]

\* ---- C8 ---------------------------------------------------------------------
GroupsWith(rule) == {i \in DOMAIN vec : rule \in RulesOf(vec[i])}

LastGroupWith(rule) == CHOOSE i \in GroupsWith(rule) : \A j \in GroupsWith(rule) : j <= i

LastAssocIn(chain, rule) ==
    LET at == {k \in DOMAIN chain : chain[k].rule = rule}
        last == CHOOSE k \in at : \A l \in at : l <= k
    IN  chain[last].assoc

\* C8: the table holds, for every rule of the list, precedence 1 + (0-based
\* position of the latest group containing it) and that group's associativity
\* for it; precedences lie between 1 and the number of groups; the head of
\* group i maps to i + 1 unless a later group names its rule; construction
\* never fails.
C8_PrecedenceIsPosition ==
    /\ pc = "build" => ENABLED NewPrecClimber
    /\ pc = "built" =>
          /\ DOMAIN ops = UNION {RulesOf(vec[i]) : i \in DOMAIN vec}
          /\ \A rule \in DOMAIN ops :
                /\ ops[rule].prec \in 1..Len(vec)
                /\ ops[rule].prec = LastGroupWith(rule)
                /\ ops[rule].assoc = LastAssocIn(vec[LastGroupWith(rule)], rule)
          /\ \A i \in DOMAIN vec :
                (\A j \in DOMAIN vec : j > i => vec[i][1].rule \notin RulesOf(vec[j]))
                    => ops[vec[i][1].rule].prec = i

C8_Witness ==
    /\ pc = "built"
    /\ Len(vec) = 3
    /\ vec[1][1].rule = vec[3][1].rule
    /\ vec[1][1].assoc # vec[3][1].assoc
    /\ vec[2][1].rule # vec[1][1].rule
    /\ ops[vec[1][1].rule] = [prec |-> 3, assoc |-> vec[3][1].assoc]
    /\ ops[vec[2][1].rule].prec = 2

====
